---- MODULE Spec2Model ----
(***************************************************************************)
(* State-machine model of ADADcaBullsBot (src/ada_dca_bulls_bot.py): the   *)
(* polling loop, the position bookkeeping and the take-profit handling.    *)
(*                                                                         *)
(* Numbers.  The program computes in floating point; the model computes    *)
(* the same expressions exactly over the rationals.  Prices are integers   *)
(* (multiples of one price quantum), quantities are integers (multiples of *)
(* one quantity quantum), notionals are integers of quantum x quantum, and *)
(* a value that need not be integral (the average entry price, a raw       *)
(* take-profit target, a PnL percentage) is a fraction <<num, den>> with   *)
(* den > 0.  math.floor(x / step) * step is (num \div (den * step)) * step.*)
(* Percentages the program divides by 100 are kept as integer percents.    *)
(*                                                                         *)
(* External calls.  with_retry(...) either returns the venue's answer or   *)
(* raises once its attempts are used up; every call site draws that        *)
(* outcome from BOOLEAN.                                                   *)
(*                                                                         *)
(* Specifications.  Spec is the bot and its venue.  Three functions are    *)
(* also run on their own, on inputs drawn from bounded sets, with the bot  *)
(* standing still: SpecRetry is one call of with_retry, SpecSizing is      *)
(* _sum_geo / _calc_bases and the legs of one position for any             *)
(* configuration, SpecSignal is one call of bulls_signal_from_klines.      *)
(***************************************************************************)
EXTENDS Integers, Sequences, FiniteSets, TLC

(* ------------------------- configuration (environment) ----------------- *)
EQUITY_USDT == 91
USE_CROSS == FALSE
LEVERAGE_X == 10
TP_PCT == 10
MAX_DCA == 2
VOL_SCALE_LONG == 2
VOL_SCALE_SHORT == 3
\* FIT_LONG_STEP = env / 100.0: the percent is kept, the division is done
\* where the step is used.
FIT_LONG_STEP == 20
FIT_SHORT_STEP == 10
FLIP_BUFFER_PCT == 5
EMERGENCY_SL_PCT == 30
\* TAKER_FEE = TAKER_FEE_NUM / TAKER_FEE_DEN
TAKER_FEE_NUM == 1
TAKER_FEE_DEN == 20

\* The boolean switches and the profit floor, one record per deployment.
Envs ==
    { [RESEED_IMMEDIATELY |-> TRUE,  SEED_FRESH_ONLY |-> FALSE,
       USE_EMERGENCY_SL |-> FALSE, MIN_PROFIT_USD |-> 0],
      [RESEED_IMMEDIATELY |-> FALSE, SEED_FRESH_ONLY |-> TRUE,
       USE_EMERGENCY_SL |-> TRUE,  MIN_PROFIT_USD |-> 1] }

\* Instrument filters the venue may report at construction.
Filters ==
    { [qtyStep |-> 1, minOrderQty |-> 1, tickSize |-> 1],
      [qtyStep |-> 1, minOrderQty |-> 2, tickSize |-> 2] }

\* Ticker values (lastPrice, markPrice) the venue may report.
TickerPrices == {4, 8}

\* Live take-profit orders the venue is allowed to accumulate.
MaxLiveTps == 2

None == <<>>
NoPx == 0
NoId == 0

\* a function of the program that the specification at hand does not call
NotCalled == [st |-> "idle"]

VARIABLES
    pc,               \* position of the loop: the next step of the tick
    price,            \* loop(): price of the running tick
    sig,              \* loop(): <<sigL, sigS, freshL, freshS>> of the tick
    qty_step, min_qty, tick_size,   \* self.qty_step, self.min_qty, self.tick_size
    env,              \* the environment switches
    pos_qty,          \* self.pos_qty (signed)
    avg_entry,        \* self.avg_entry: None or <<num, den>>
    used_usdt,        \* self.used_usdt
    leg_usdt,         \* self.leg_usdt
    level,            \* self.level
    last_fill_px,     \* self.last_fill_px: NoPx or a price
    entry_fees_paid,  \* self.entry_fees_paid, in units of 1 / TAKER_FEE_DEN
    tp_order_id,      \* self.tp_order_id: NoId or an order id
    last_dir,         \* self.last_dir
    tp_order,         \* the request behind tp_order_id (lines 239-244), or None
    venue_tps,        \* the venue: the ids of the live take-profit orders
    log,              \* what the running tick has done so far
    retry,            \* one call of with_retry: its locals and what it has done
    sizing,           \* one construction's sizing and the legs one position takes
    ind               \* one call of bulls_signal_from_klines: input and result

\* the bot and its venue
bot_vars == <<pc, price, sig, qty_step, min_qty, tick_size, env, pos_qty,
              avg_entry, used_usdt, leg_usdt, level, last_fill_px,
              entry_fees_paid, tp_order_id, last_dir, tp_order, venue_tps, log>>

\* the functions studied on their own
fn_vars == <<retry, sizing, ind>>

vars == <<pc, price, sig, qty_step, min_qty, tick_size, env, pos_qty, avg_entry,
          used_usdt, leg_usdt, level, last_fill_px, entry_fees_paid,
          tp_order_id, last_dir, tp_order, venue_tps, log, retry, sizing, ind>>

(* ------------------------------ arithmetic ----------------------------- *)
Abs(x) == IF x < 0 THEN -x ELSE x

RECURSIVE GCD(_, _)
GCD(a, b) == IF b = 0 THEN a ELSE GCD(b, a % b)

\* a fraction in lowest terms (den > 0)
Norm(n, d) == LET g == GCD(Abs(n), d) IN <<n \div g, d \div g>>

FLe(a, b) == a[1] * b[2] <= b[1] * a[2]
FLt(a, b) == a[1] * b[2] < b[1] * a[2]
FMax(a, b) == IF FLe(a, b) THEN b ELSE a
FMin(a, b) == IF FLe(a, b) THEN a ELSE b

RECURSIVE Pow(_, _)
Pow(b, k) == IF k = 0 THEN 1 ELSE b * Pow(b, k - 1)

(* ------------------------------- sizing -------------------------------- *)
\* the rationals: <<num, den>> in lowest terms, den > 0
Frac(n, d) == IF d < 0 THEN Norm(-n, -d) ELSE Norm(n, d)
FAdd(a, b) == Frac(a[1] * b[2] + b[1] * a[2], a[2] * b[2])
FSub(a, b) == Frac(a[1] * b[2] - b[1] * a[2], a[2] * b[2])
FMul(a, b) == Frac(a[1] * b[1], a[2] * b[2])
FDiv(a, b) == Frac(a[1] * b[2], a[2] * b[1])

RECURSIVE FPow(_, _)
FPow(b, k) == IF k = 0 THEN <<1, 1>> ELSE FMul(b, FPow(b, k - 1))

\* the integer a fraction with denominator 1 stands for
Whole(f) == f[1] \div f[2]

\* _sum_geo divides by 1.0 - scale: ZeroDivisionError when scale is 1 and k > 0
sum_geo_raises(scale, k) == k > 0 /\ scale[1] = scale[2]

\* a geometric sum that leaves out its last term
sum_geo_short(scale, k) ==
    IF k > 1 THEN FDiv(FSub(<<1, 1>>, FPow(scale, k - 1)), FSub(<<1, 1>>, scale))
             ELSE <<1, 1>>

\* (1.0 - scale**k) / (1.0 - scale) if k > 0 else 0.0, for scale other than 1
sum_geo(scale, k) ==
    IF k > 0 THEN FDiv(FSub(<<1, 1>>, FPow(scale, k)), FSub(<<1, 1>>, scale))
             ELSE <<0, 1>>

\* line 193
budget_of(equity, cross, leverage) == equity * (IF cross THEN leverage ELSE 1)

budget == budget_of(EQUITY_USDT, USE_CROSS, LEVERAGE_X)

\* _calc_bases for one side: self.budget / total_mult raises ZeroDivisionError
\* when _sum_geo raised or returned 0.0
base_raises(scale, max_dca) ==
    \/ sum_geo_raises(scale, 1 + max_dca)
    \/ sum_geo(scale, 1 + max_dca)[1] = 0

base_of(total, scale, max_dca) == FDiv(<<total, 1>>, sum_geo(scale, 1 + max_dca))

\* a sizing that takes the leveraged equity whatever USE_CROSS says
calc_bases_leveraged ==
    << Whole(base_of(EQUITY_USDT * LEVERAGE_X, <<VOL_SCALE_LONG, 1>>, MAX_DCA)),
       Whole(base_of(EQUITY_USDT * LEVERAGE_X, <<VOL_SCALE_SHORT, 1>>, MAX_DCA)) >>

\* the bases of this configuration are whole notional units
calc_bases ==
    << Whole(base_of(budget, <<VOL_SCALE_LONG, 1>>, MAX_DCA)),
       Whole(base_of(budget, <<VOL_SCALE_SHORT, 1>>, MAX_DCA)) >>

long_base == calc_bases[1]
short_base == calc_bases[2]

\* _round_qty(num / den)
round_qty(num, den) ==
    LET q == (num \div (den * qty_step)) * qty_step
    IN  IF 0 < q /\ q < min_qty THEN min_qty ELSE q

\* _round_px(num / den)
round_px(num, den) == (num \div (den * tick_size)) * tick_size

(* ------------------------- the bot and the venue ----------------------- *)
\* The object's fields, the venue's order book and the tick's log in one
\* record, so that a handler is the composition of the calls it makes.
\* exc: an exception is propagating out of the call.
World(step) ==
    [ pos_qty |-> pos_qty, avg_entry |-> avg_entry, used_usdt |-> used_usdt,
      leg_usdt |-> leg_usdt, level |-> level, last_fill_px |-> last_fill_px,
      entry_fees_paid |-> entry_fees_paid, tp_order_id |-> tp_order_id,
      last_dir |-> last_dir, tp_order |-> tp_order, venue_tps |-> venue_tps,
      log |-> log,
      by |-> step, exc |-> FALSE ]

Ev(w, kind, side, qty, px) ==
    [ev |-> kind, by |-> w.by, side |-> side, qty |-> qty, px |-> px]

Logged(w, kind, side, qty, px) ==
    [w EXCEPT !.log = Append(@, Ev(w, kind, side, qty, px))]

Raise(w) == [w EXCEPT !.exc = TRUE]

\* the id the venue gives a new order: one no live or held order has
NewId(w) ==
    CHOOSE i \in 1..(MaxLiveTps + 2) :
        /\ i # w.tp_order_id
        /\ i \notin w.venue_tps
        /\ \A j \in 1..(i - 1) : j = w.tp_order_id \/ j \in w.venue_tps

\* a _mkt that books the entry fee before it places the order
mkt_fee_first(w, side, qty0, px, reduce, ok) ==
    LET qty == round_qty(qty0, 1)
        vside == IF side = "long" THEN "Buy" ELSE "Sell"
        w0 == IF reduce THEN w
              ELSE [w EXCEPT !.entry_fees_paid = @ + qty * px * TAKER_FEE_NUM]
    IN  IF qty <= 0 THEN w
        ELSE IF ~ok THEN Raise(Logged(w0, "mkt_rejected", vside, qty, px))
        ELSE Logged(w0, IF reduce THEN "mkt_close" ELSE "mkt_open", vside, qty, px)

\* _mkt: the side string is "long" or "short"; ok is the outcome of
\* with_retry(place_order).
mkt(w, side, qty0, px, reduce, ok) ==
    LET qty == round_qty(qty0, 1)
        vside == IF side = "long" THEN "Buy" ELSE "Sell"
    IN  IF qty <= 0 THEN w
        ELSE IF ~ok THEN Raise(Logged(w, "mkt_rejected", vside, qty, px))
        ELSE LET w1 == Logged(w, IF reduce THEN "mkt_close" ELSE "mkt_open",
                              vside, qty, px)
             IN  IF reduce THEN w1
                 ELSE [w1 EXCEPT !.entry_fees_paid = @ + qty * px * TAKER_FEE_NUM]

\* _expected_pnl_pct with the long formula on both sides
expected_pnl_pct_long_only(w, px) ==
    IF w.pos_qty = 0 \/ w.avg_entry = None THEN <<0, 1>>
    ELSE <<100 * (px * w.avg_entry[2] - w.avg_entry[1]), w.avg_entry[1]>>

\* _expected_pnl_pct, as a fraction
expected_pnl_pct(w, px) ==
    IF w.pos_qty = 0 \/ w.avg_entry = None THEN <<0, 1>>
    ELSE IF w.pos_qty > 0
         THEN <<100 * (px * w.avg_entry[2] - w.avg_entry[1]), w.avg_entry[1]>>
         ELSE <<100 * (w.avg_entry[1] - px * w.avg_entry[2]), w.avg_entry[1]>>

\* _tp_target: None or the rounded limit price
tp_target(w) ==
    IF w.pos_qty = 0 \/ w.avg_entry = None THEN None
    ELSE
      LET n == w.avg_entry[1]
          d == w.avg_entry[2]
          qty == Abs(w.pos_qty)
          \* rhs = (entry_fees_paid + MIN_PROFIT_USD) / qty
          rhsN == w.entry_fees_paid + env.MIN_PROFIT_USD * TAKER_FEE_DEN
          rhsD == TAKER_FEE_DEN * qty
      IN  IF w.pos_qty > 0
          THEN LET raw0 == <<n * (100 + TP_PCT), d * 100>>
                   \* (avg + rhs) / (1 - TAKER_FEE)
                   alt == <<n * rhsD + rhsN * d,
                            d * qty * (TAKER_FEE_DEN - TAKER_FEE_NUM)>>
                   raw == IF env.MIN_PROFIT_USD > 0 THEN FMax(raw0, alt) ELSE raw0
               IN  <<round_px(raw[1], raw[2])>>
          ELSE LET raw0 == <<n * (100 - TP_PCT), d * 100>>
                   \* (avg - rhs) / (1 + TAKER_FEE)
                   alt == <<n * rhsD - rhsN * d,
                            d * qty * (TAKER_FEE_DEN + TAKER_FEE_NUM)>>
                   raw == IF env.MIN_PROFIT_USD > 0 THEN FMin(raw0, alt) ELSE raw0
               IN  <<round_px(raw[1], raw[2])>>

\* a _cancel_tp that drops the id only when the venue has cancelled
cancel_tp_keeps_id(w, ok) ==
    IF w.tp_order_id = NoId THEN w
    ELSE LET done == ok \/ Cardinality(w.venue_tps) >= MaxLiveTps
             w1 == Logged(w, IF done THEN "tp_cancel" ELSE "tp_cancel_failed",
                          "-", 0, 0)
         IN  IF done
             THEN [w1 EXCEPT !.venue_tps = @ \ {w.tp_order_id},
                             !.tp_order_id = NoId, !.tp_order = None]
             ELSE w1

\* _cancel_tp: a failed cancel is logged and the id is dropped all the same.
\* The venue keeps the order of a failed cancel; the failure is drawn only
\* while the venue holds fewer than MaxLiveTps orders.
cancel_tp(w, ok) ==
    IF w.tp_order_id = NoId THEN w
    ELSE LET done == ok \/ Cardinality(w.venue_tps) >= MaxLiveTps
             w1 == Logged(w, IF done THEN "tp_cancel" ELSE "tp_cancel_failed",
                          "-", 0, 0)
         IN  [w1 EXCEPT
                !.venue_tps = IF done THEN @ \ {w.tp_order_id} ELSE @,
                !.tp_order_id = NoId, !.tp_order = None]

\* _place_tp_limit
place_tp_limit(w, cancel_ok, place_ok) ==
    IF w.pos_qty <= 0 \/ w.avg_entry = None THEN w
    ELSE
      LET trg == tp_target(w)
          qty == round_qty(Abs(w.pos_qty), 1)
          w1 == cancel_tp(w, cancel_ok)
          side == IF w.pos_qty > 0 THEN "Sell" ELSE "Buy"
          id == NewId(w1)
      IN  IF trg = None THEN w
          ELSE IF ~place_ok THEN Raise(Logged(w1, "tp_rejected", side, qty, trg[1]))
          ELSE [Logged(w1, "tp_place", side, qty, trg[1]) EXCEPT
                  !.venue_tps = @ \cup {id},
                  !.tp_order = [side |-> side, qty |-> qty, price |-> trg[1],
                                reduceOnly |-> TRUE],
                  !.tp_order_id = id]

\* _reset_state
reset_state(w, cancel_ok) ==
    cancel_tp(Logged([w EXCEPT !.pos_qty = 0, !.avg_entry = None, !.used_usdt = 0,
                               !.leg_usdt = 0, !.level = -1, !.last_fill_px = NoPx,
                               !.entry_fees_paid = 0],
                     "reset", "-", 0, 0),
              cancel_ok)

\* the except clause that logs and swallows the exception
Caught(w) == [w EXCEPT !.exc = FALSE]

\* the outcomes of the external calls of one handler; a handler draws the
\* ones it can make, the others are fixed
Oks(calls) ==
    { o \in [pos : BOOLEAN, tick : BOOLEAN, mkt1 : BOOLEAN, mkt2 : BOOLEAN,
              cancel : BOOLEAN, place : BOOLEAN] :
        \A c \in {"pos", "tick", "mkt1", "mkt2", "cancel", "place"} \ calls : o[c] }

(* ------------------------- seeding and averaging ----------------------- *)
\* _seed_if_flat; s is <<sigL, sigS, freshL, freshS>>
seed_if_flat(w, px, s, oks) ==
    IF w.pos_qty # 0 THEN w
    ELSE
      LET seedL == IF env.SEED_FRESH_ONLY THEN s[3] ELSE s[1]
          seedS == IF env.SEED_FRESH_ONLY THEN s[4] ELSE s[2]
      IN  IF seedL
          THEN LET usdt == long_base
                   qty == round_qty(usdt, px)
                   w1 == mkt(w, "long", qty, px, FALSE, oks.mkt1)
               IN  IF w1.exc THEN w1
                   ELSE place_tp_limit(
                          [w1 EXCEPT !.pos_qty = @ + qty, !.avg_entry = <<px, 1>>,
                                     !.used_usdt = usdt, !.leg_usdt = usdt,
                                     !.level = 0, !.last_fill_px = px,
                                     !.last_dir = 1],
                          oks.cancel, oks.place)
          ELSE IF seedS
          THEN LET usdt == short_base
                   qty == round_qty(usdt, px)
                   w1 == mkt(w, "short", qty, px, FALSE, oks.mkt1)
               IN  IF w1.exc THEN w1
                   ELSE place_tp_limit(
                          [w1 EXCEPT !.pos_qty = @ - qty, !.avg_entry = <<px, 1>>,
                                     !.used_usdt = usdt, !.leg_usdt = usdt,
                                     !.level = 0, !.last_fill_px = px,
                                     !.last_dir = -1],
                          oks.cancel, oks.place)
          ELSE w

\* _next_adverse with the two sides' directions exchanged
next_adverse_swapped(is_long, from_px, lvl) ==
    IF is_long THEN <<from_px * (100 + FIT_LONG_STEP), 100>>
               ELSE <<from_px * (100 - FIT_SHORT_STEP), 100>>

\* a _next_adverse with no step: the next Add is due at the last fill price
next_adverse_no_step(is_long, from_px, lvl) == <<from_px, 1>>

\* _next_adverse, as a fraction
next_adverse(is_long, from_px, lvl) ==
    IF is_long THEN <<from_px * (100 - FIT_LONG_STEP), 100>>
               ELSE <<from_px * (100 + FIT_SHORT_STEP), 100>>

\* the budget test of _maybe_dca; the tolerance 1e-6 is below one notional unit
budget_allows(used, next_leg) == used + next_leg <= budget

\* the body both branches of _maybe_dca share once the price test has passed
dca_add(w, side, scale, px, oks) ==
    LET next_leg == w.leg_usdt * scale
        add_qty == round_qty(next_leg, px)
        prev_qty == Abs(w.pos_qty)
        w1 == mkt(w, side, add_qty, px, FALSE, oks.mkt1)
        new_qty == prev_qty + add_qty
    IN  IF ~budget_allows(w.used_usdt, next_leg) THEN w
        ELSE IF ~(add_qty > 0) THEN w
        ELSE IF w1.exc THEN w1
        ELSE place_tp_limit(
               [Logged(w1, "add", side, add_qty, px) EXCEPT
                  !.avg_entry = Norm(w.avg_entry[1] * prev_qty
                                       + px * add_qty * w.avg_entry[2],
                                     w.avg_entry[2] * new_qty),
                  !.pos_qty = IF side = "long" THEN new_qty ELSE -new_qty,
                  !.level = @ + 1, !.leg_usdt = next_leg,
                  !.used_usdt = @ + next_leg, !.last_fill_px = px],
               oks.cancel, oks.place)

\* _maybe_dca
maybe_dca(w, px, oks) ==
    IF w.pos_qty = 0 \/ w.level < 0 \/ w.level >= MAX_DCA THEN w
    ELSE
      LET is_long == w.pos_qty > 0
          next_px == next_adverse(is_long, w.last_fill_px, w.level)
      IN  IF is_long /\ FLe(<<px, 1>>, next_px)
          THEN dca_add(w, "long", VOL_SCALE_LONG, px, oks)
          ELSE IF (~is_long) /\ FLe(next_px, <<px, 1>>)
          THEN dca_add(w, "short", VOL_SCALE_SHORT, px, oks)
          ELSE w

(* ------------------------------- exits --------------------------------- *)
\* the re-seed of _check_tp_filled_by_sync (lines 369-377)
reseed(w, px, oks) ==
    IF env.RESEED_IMMEDIATELY /\ w.last_dir # 0
    THEN LET usdt == IF w.last_dir = 1 THEN long_base ELSE short_base
             qty == round_qty(usdt, px)
             side == IF w.last_dir = 1 THEN "long" ELSE "short"
             w1 == mkt(w, side, qty, px, FALSE, oks.mkt1)
         IN  IF w1.exc THEN w1
             ELSE place_tp_limit(
                    [w1 EXCEPT !.pos_qty = IF side = "long" THEN qty ELSE -qty,
                               !.avg_entry = <<px, 1>>, !.used_usdt = usdt,
                               !.leg_usdt = usdt, !.level = 0,
                               !.last_fill_px = px],
                    TRUE, oks.place)
    ELSE w

\* _check_tp_filled_by_sync: size is the venue's answer, px2 the price its
\* own ticker call returns (last, not the midpoint).
check_tp_filled_by_sync(w, size, px2, oks) ==
    IF ~oks.pos THEN Logged(w, "sync_failed", "-", 0, 0)
    ELSE IF ~(size = 0 /\ w.pos_qty # 0) THEN w
    ELSE LET \* a position the venue reports closed has no reduce-only order
             \* left on the book: the one that filled is gone and the venue
             \* cancels the rest
             w0 == [Logged(w, "closed_detected", "-", Abs(w.pos_qty), 0)
                      EXCEPT !.venue_tps = {}]
         IN  IF ~oks.tick THEN Logged(w0, "sync_failed", "-", 0, 0)
             ELSE Caught(reseed(reset_state(w0, oks.cancel), px2, oks))

\* _maybe_emergency_sl
maybe_emergency_sl(w, px, oks) ==
    IF ~env.USE_EMERGENCY_SL \/ w.pos_qty = 0 \/ w.avg_entry = None THEN w
    ELSE
      LET n == w.avg_entry[1]
          d == w.avg_entry[2]
      IN  IF w.pos_qty > 0
          THEN IF FLe(<<px, 1>>, <<n * (100 - EMERGENCY_SL_PCT), d * 100>>)
               THEN LET w1 == mkt(w, "long", round_qty(w.pos_qty, 1), px, TRUE,
                                  oks.mkt1)
                    IN  IF w1.exc THEN w1 ELSE reset_state(w1, oks.cancel)
               ELSE w
          ELSE IF FLe(<<n * (100 + EMERGENCY_SL_PCT), d * 100>>, <<px, 1>>)
               THEN LET w1 == mkt(w, "short", round_qty(Abs(w.pos_qty), 1), px,
                                  TRUE, oks.mkt1)
                    IN  IF w1.exc THEN w1 ELSE reset_state(w1, oks.cancel)
               ELSE w

\* the flip itself: close, reset, open the other side (lines 402-411, 413-422)
flip(w, from, to, px, oks) ==
    LET w1 == mkt(w, from, round_qty(Abs(w.pos_qty), 1), px, TRUE, oks.mkt1)
        w2 == reset_state(w1, oks.cancel)
        usdt == IF to = "short" THEN short_base ELSE long_base
        q == round_qty(usdt, px)
        w3 == mkt(w2, to, q, px, FALSE, oks.mkt2)
    IN  IF w1.exc THEN w1
        ELSE IF w3.exc THEN w3
        ELSE place_tp_limit(
               [Logged(w3, "flip", to, q, px) EXCEPT
                  !.pos_qty = IF to = "short" THEN -q ELSE q,
                  !.avg_entry = <<px, 1>>, !.used_usdt = usdt, !.leg_usdt = usdt,
                  !.level = 0, !.last_fill_px = px,
                  !.last_dir = IF to = "short" THEN -1 ELSE 1],
               TRUE, oks.place)

\* _maybe_flip_on_signal_profit
maybe_flip_on_signal_profit(w, freshL, freshS, px, oks) ==
    IF w.pos_qty = 0 \/ w.avg_entry = None THEN w
    ELSE
      LET pnl_pct == expected_pnl_pct(w, px)
      IN  IF w.pos_qty > 0 /\ freshS /\ FLt(<<FLIP_BUFFER_PCT, 1>>, pnl_pct)
          THEN flip(w, "long", "short", px, oks)
          ELSE IF w.pos_qty < 0 /\ freshL /\ FLt(<<FLIP_BUFFER_PCT, 1>>, pnl_pct)
          THEN flip(w, "short", "long", px, oks)
          ELSE w

(* ------------------------------ the loop ------------------------------- *)
\* what bulls_signal_from_klines can return: at most one of sigL, sigS, and
\* fresh only with its signal
SignalTuples ==
    { <<FALSE, FALSE, FALSE, FALSE>>,
      <<TRUE, FALSE, FALSE, FALSE>>, <<TRUE, FALSE, TRUE, FALSE>>,
      <<FALSE, TRUE, FALSE, FALSE>>, <<FALSE, TRUE, FALSE, TRUE>> }

NoSignal == <<FALSE, FALSE, FALSE, FALSE>>

\* sizes get_positions may report
VenueSizes == {0, 1}

\* the object after __init__ (lines 153-194), the loop not yet entered
BotInit ==
    /\ pc = "fetch"
    /\ price = NoPx
    /\ sig = NoSignal
    /\ \E f \in Filters :
          /\ qty_step = f.qtyStep
          /\ min_qty = f.minOrderQty
          /\ tick_size = f.tickSize
    /\ env \in Envs
    /\ pos_qty = 0
    /\ avg_entry = None
    /\ used_usdt = 0
    /\ leg_usdt = 0
    /\ level = -1
    /\ last_fill_px = NoPx
    /\ entry_fees_paid = 0
    /\ tp_order_id = NoId
    /\ last_dir = 0
    /\ tp_order = None
    /\ venue_tps = {}
    /\ log = <<>>

Init ==
    /\ BotInit
    /\ retry = NotCalled
    /\ sizing = NotCalled
    /\ ind = NotCalled

\* the object and the venue after a handler; an exception that leaves the
\* handler leaves loop() and main(): the process ends
Commit(w, next) ==
    /\ pos_qty' = w.pos_qty
    /\ avg_entry' = w.avg_entry
    /\ used_usdt' = w.used_usdt
    /\ leg_usdt' = w.leg_usdt
    /\ level' = w.level
    /\ last_fill_px' = w.last_fill_px
    /\ entry_fees_paid' = w.entry_fees_paid
    /\ tp_order_id' = w.tp_order_id
    /\ last_dir' = w.last_dir
    /\ tp_order' = w.tp_order
    /\ venue_tps' = w.venue_tps
    /\ log' = w.log
    /\ pc' = IF w.exc THEN "crashed" ELSE next
    /\ UNCHANGED <<qty_step, min_qty, tick_size, env>>
    /\ UNCHANGED fn_vars

\* what the except clause of line 432 logs
PriceFailed ==
    [ev |-> "price_failed", by |-> "fetch", side |-> "-", qty |-> 0, px |-> 0]

\* a loop whose failed price fetch is logged and then goes on into the tick
PriceFetch_no_skip ==
    /\ pc = "fetch"
    /\ \E ok \in BOOLEAN, last \in TickerPrices, mark \in TickerPrices :
          /\ price' = (last + mark) \div 2
          /\ pc' = "sync"
          /\ log' = IF ok THEN <<>> ELSE <<PriceFailed>>
    /\ UNCHANGED <<sig, qty_step, min_qty, tick_size, env, pos_qty, avg_entry,
                   used_usdt, leg_usdt, level, last_fill_px, entry_fees_paid,
                   tp_order_id, last_dir, tp_order, venue_tps>>
    /\ UNCHANGED fn_vars

\* lines 429-433: the tick's price, or the warning of the except clause
PriceFetch ==
    /\ pc = "fetch"
    /\ \E ok \in BOOLEAN :
          IF ok
          THEN \E last \in TickerPrices, mark \in TickerPrices :
                  /\ price' = (last + mark) \div 2
                  /\ pc' = "sync"
                  /\ log' = <<>>
          ELSE /\ price' = NoPx
               /\ pc' = "skip"
               /\ log' = <<PriceFailed>>
    /\ UNCHANGED <<sig, qty_step, min_qty, tick_size, env, pos_qty, avg_entry,
                   used_usdt, leg_usdt, level, last_fill_px, entry_fees_paid,
                   tp_order_id, last_dir, tp_order, venue_tps>>
    /\ UNCHANGED fn_vars

\* line 433: time.sleep(POLL_SEC); continue
SkipTick ==
    /\ pc = "skip"
    /\ pc' = "fetch"
    /\ log' = <<>>
    /\ UNCHANGED <<price, sig, qty_step, min_qty, tick_size, env, pos_qty,
                   avg_entry, used_usdt, leg_usdt, level, last_fill_px,
                   entry_fees_paid, tp_order_id, last_dir, tp_order, venue_tps>>
    /\ UNCHANGED fn_vars

\* line 436
CheckTpFilledBySync ==
    /\ pc = "sync"
    /\ \E size \in VenueSizes, px2 \in TickerPrices,
          oks \in Oks({"pos", "tick", "mkt1", "cancel", "place"}) :
          Commit(check_tp_filled_by_sync(World("sync"), size, px2, oks), "signals")
    /\ UNCHANGED <<price, sig>>

\* a signal step whose except clause logs the failure and keeps the flags
PullSignals_keeps_flags ==
    /\ pc = "signals"
    /\ \E ok \in BOOLEAN, s \in SignalTuples :
          /\ sig' = s
          /\ last_dir' = IF s[1] THEN 1 ELSE IF s[2] THEN -1 ELSE last_dir
          /\ log' = IF ok THEN log
                    ELSE Append(log, [ev |-> "signal_failed", by |-> "signals",
                                      side |-> "-", qty |-> 0, px |-> 0])
    /\ pc' = "seed"
    /\ UNCHANGED <<price, qty_step, min_qty, tick_size, env, pos_qty, avg_entry,
                   used_usdt, leg_usdt, level, last_fill_px, entry_fees_paid,
                   tp_order_id, tp_order, venue_tps>>
    /\ UNCHANGED fn_vars

\* lines 439-445
PullSignals ==
    /\ pc = "signals"
    /\ \E ok \in BOOLEAN, s \in SignalTuples :
          /\ sig' = IF ok THEN s ELSE NoSignal
          /\ last_dir' = IF ok /\ s[1] THEN 1
                         ELSE IF ok /\ s[2] THEN -1 ELSE last_dir
          /\ log' = IF ok THEN log
                    ELSE Append(log, [ev |-> "signal_failed", by |-> "signals",
                                      side |-> "-", qty |-> 0, px |-> 0])
    /\ pc' = "seed"
    /\ UNCHANGED <<price, qty_step, min_qty, tick_size, env, pos_qty, avg_entry,
                   used_usdt, leg_usdt, level, last_fill_px, entry_fees_paid,
                   tp_order_id, tp_order, venue_tps>>
    /\ UNCHANGED fn_vars

\* line 448
SeedIfFlat ==
    /\ pc = "seed"
    /\ \E oks \in Oks({"mkt1", "cancel", "place"}) :
          Commit(seed_if_flat(World("seed"), price, sig, oks), "dca")
    /\ UNCHANGED <<price, sig>>

\* line 451
MaybeDca ==
    /\ pc = "dca"
    /\ \E oks \in Oks({"mkt1", "cancel", "place"}) :
          Commit(maybe_dca(World("dca"), price, oks), "flip")
    /\ UNCHANGED <<price, sig>>

\* line 454
MaybeFlipOnSignalProfit ==
    /\ pc = "flip"
    /\ \E oks \in Oks({"mkt1", "mkt2", "cancel", "place"}) :
          Commit(maybe_flip_on_signal_profit(World("flip"), sig[3], sig[4], price,
                                             oks), "sl")
    /\ UNCHANGED <<price, sig>>

\* line 457
MaybeEmergencySl ==
    /\ pc = "sl"
    /\ \E oks \in Oks({"mkt1", "cancel"}) :
          Commit(maybe_emergency_sl(World("sl"), price, oks), "sleep")
    /\ UNCHANGED <<price, sig>>

\* line 459: the tick is over; price and the signal flags are locals of the
\* loop body, dead from here on, and the tick's log is closed
Sleep ==
    /\ pc = "sleep"
    /\ pc' = "fetch"
    /\ price' = NoPx
    /\ sig' = NoSignal
    /\ log' = <<>>
    /\ UNCHANGED <<qty_step, min_qty, tick_size, env, pos_qty, avg_entry,
                   used_usdt, leg_usdt, level, last_fill_px, entry_fees_paid,
                   tp_order_id, last_dir, tp_order, venue_tps>>
    /\ UNCHANGED fn_vars

\* the venue, while the loop sleeps: a live take-profit order fills and
\* leaves the book
VenueTpFill ==
    /\ pc = "fetch"
    /\ \E id \in venue_tps : venue_tps' = venue_tps \ {id}
    /\ UNCHANGED <<pc, price, sig, qty_step, min_qty, tick_size, env, pos_qty,
                   avg_entry, used_usdt, leg_usdt, level, last_fill_px,
                   entry_fees_paid, tp_order_id, last_dir, tp_order, log>>
    /\ UNCHANGED fn_vars

Next ==
    \/ PriceFetch
    \/ SkipTick
    \/ CheckTpFilledBySync
    \/ PullSignals
    \/ SeedIfFlat
    \/ MaybeDca
    \/ MaybeFlipOnSignalProfit
    \/ MaybeEmergencySl
    \/ Sleep
    \/ VenueTpFill

Spec == Init /\ [][Next]_vars

TypeOK ==
    /\ pc \in {"fetch", "skip", "sync", "signals", "seed", "dca", "flip", "sl", "sleep",
              "crashed"}
    /\ level \in -1..MAX_DCA
    /\ Cardinality(venue_tps) <= MaxLiveTps

(* ------------------------------ the claims ----------------------------- *)
direction == IF pos_qty > 0 THEN "Long" ELSE IF pos_qty < 0 THEN "Short" ELSE "Flat"

\* the events of the running tick of one kind, and those one step logged
Events(kind) == { i \in 1..Len(log) : log[i].ev = kind }
EventsBy(kind, step) == { i \in Events(kind) : log[i].by = step }

\* C1: in every reachable state quantity == 0 iff the position is Flat iff
\* averagePrice is null iff dcaLevel == -1.
C1_PositionInvariant ==
    /\ (pos_qty = 0) <=> (direction = "Flat")
    /\ (direction = "Flat") <=> (avg_entry = None)
    /\ (avg_entry = None) <=> (level = -1)

\* C2: the control loop never terminates, whichever external call fails.
C2_LoopNeverTerminates == pc # "crashed"

\* C3: at most one take-profit order placed by the engine is live on the venue
\* at any time, also when cancel calls can fail.
C3_AtMostOneLiveTp == Cardinality(venue_tps) <= 1

\* the engine holds a take-profit order that closes the whole position
HoldsClosingTp ==
    /\ tp_order_id # NoId
    /\ tp_order # None
    /\ tp_order.reduceOnly
    /\ tp_order.side = (IF pos_qty > 0 THEN "Sell" ELSE "Buy")
    /\ tp_order.qty = Abs(pos_qty)

\* an opening order of this tick went through and nothing the operation did
\* after it was rejected: the Seed, Add, Flip or re-seed has completed
OpenedAndCompleted ==
    /\ pc # "crashed"
    /\ Events("mkt_open") # {}
    /\ Events("tp_rejected") = {}
    /\ \A i \in Events("reset") : \E j \in Events("mkt_open") : j > i

\* C4: after every Seed, Add, Flip or reconciliation re-seed that completes and
\* leaves the position Open, Long or Short, the engine holds a pending
\* reduce-only take-profit order on the closing side for the whole quantity.
C4_OpenPositionHoldsTp ==
    (OpenedAndCompleted /\ pos_qty # 0) => HoldsClosingTp

\* the same for long positions alone, which the code does satisfy
C4_LongHoldsTp ==
    (OpenedAndCompleted /\ pos_qty > 0) => HoldsClosingTp

\* the fields of the position
position == <<pos_qty, avg_entry, used_usdt, leg_usdt, level, last_fill_px,
              entry_fees_paid>>

\* the price has moved adversely by the side's step since the last fill
AdverseMove ==
    \/ pos_qty > 0 /\ price * 100 <= last_fill_px * (100 - FIT_LONG_STEP)
    \/ pos_qty < 0 /\ price * 100 >= last_fill_px * (100 + FIT_SHORT_STEP)

\* the leg the next Add would buy
NextLeg == leg_usdt * (IF pos_qty > 0 THEN VOL_SCALE_LONG ELSE VOL_SCALE_SHORT)

\* C5: usedNotional <= totalBudget (+ epsilon) in every reachable state; an Add
\* whose next leg would take usedNotional over the budget is skipped without
\* error and leaves dcaLevel, quantity, averagePrice, usedNotional, legNotional
\* and lastFillPrice unchanged; every accepted Add stays within the budget.
C5_BudgetNeverExceeded ==
    /\ used_usdt <= budget
    /\ [][ /\ used_usdt' <= budget
           /\ (pc = "dca" /\ pos_qty # 0 /\ level >= 0 /\ level < MAX_DCA
                 /\ AdverseMove /\ used_usdt + NextLeg > budget)
                => (UNCHANGED position /\ pc' = "flip")
           /\ (pc = "dca" /\ level' # level)
                => (used_usdt + NextLeg <= budget /\ used_usdt' = used_usdt + NextLeg
                      /\ leg_usdt' = NextLeg)
         ]_vars

\* C5 witness: the last Add has been accepted and the budget is used up
C5_Witness ==
    /\ level = MAX_DCA
    /\ used_usdt = budget
    /\ Events("add") # {}

\* C6: dcaLevel stays in [-1, maxDca]; each accepted Add raises it by exactly 1
\* and happens only after an adverse move of the side's step from
\* lastFillPrice and with dcaLevel < maxDca; at most one Add is accepted per
\* tick; no other operation sets dcaLevel above 0.
C6_DcaLevel ==
    /\ level \in -1..MAX_DCA
    /\ [][ /\ level' \in -1..MAX_DCA
           /\ (level' # level /\ level' > 0)
                => (pc = "dca" /\ level' = level + 1 /\ level < MAX_DCA
                      /\ AdverseMove)
           /\ (pc = "dca" /\ level' # level) => level' = level + 1
           /\ (pc # "dca") => level' \in {level, -1, 0}
           /\ Cardinality({ i \in 1..Len(log') : log'[i].ev = "add" }) <= 1
         ]_vars

\* C6 witness: a short position has taken every Add
C6_Witness ==
    /\ level = MAX_DCA
    /\ pos_qty < 0
    /\ Events("add") # {}

\* the Flip condition of the running tick: open, a fresh opposite signal, and
\* pnlPct strictly above the buffer
FlipDue ==
    /\ pos_qty # 0
    /\ avg_entry # None
    /\ \/ /\ pos_qty > 0
          /\ sig[4]
          /\ 100 * (price * avg_entry[2] - avg_entry[1]) > FLIP_BUFFER_PCT * avg_entry[1]
       \/ /\ pos_qty < 0
          /\ sig[3]
          /\ 100 * (avg_entry[1] - price * avg_entry[2]) > FLIP_BUFFER_PCT * avg_entry[1]

\* C7: Flip executes only when the position is Open, a fresh opposite signal
\* is present in this tick and pnlPct > flipBuffer; in every other case the
\* Flip step sends no order and leaves the position and its take-profit
\* unchanged.
C7_FlipOnlyWhenDue ==
    [][ (pc = "flip") =>
          /\ (~FlipDue) => UNCHANGED <<position, tp_order_id, tp_order, venue_tps,
                                       last_dir, log>>
          /\ FlipDue => log' # log
      ]_vars

\* C7 witness: a short position was flipped to long in this tick
C7_Witness ==
    /\ pc = "sl"
    /\ \E i \in EventsBy("flip", "flip") : log[i].side = "long"
    /\ pos_qty > 0

\* the market orders one step of the running tick sent to the venue
SentBy(step) ==
    { i \in 1..Len(log) :
        log[i].by = step /\ log[i].ev \in {"mkt_open", "mkt_close", "mkt_rejected"} }

\* C8: in a tick where local quantity is non-zero and the venue reports size 0,
\* Reset is performed exactly once and, if reseed-immediately is enabled,
\* exactly one new Seed (one opening market order, dcaLevel 0) follows in the
\* direction lastDirectionSeen; Seed-if-flat later in the tick opens nothing.
C8_ResetOnceReseedOnce ==
    (Events("closed_detected") # {}) =>
        /\ Cardinality(EventsBy("reset", "sync")) = 1
        /\ env.RESEED_IMMEDIATELY =>
              /\ Cardinality(EventsBy("mkt_open", "sync")) = 1
              /\ pc = "signals" =>
                    /\ level = 0
                    /\ \A i \in EventsBy("mkt_open", "sync") :
                          log[i].side = (IF last_dir = 1 THEN "Buy" ELSE "Sell")
        /\ EventsBy("mkt_open", "seed") = {}

\* C9: in a tick where Reconciliation observes an exchange-side close the local
\* state has been Reset before Add, Flip and EmergencyStop are evaluated, so
\* none of them sends an order computed from the pre-close position.
C9_NoOrderFromStalePosition ==
    (Events("closed_detected") # {} /\ pc \in {"dca", "flip", "sl", "sleep", "crashed"})
        => \/ EventsBy("reset", "sync") # {}
           \/ SentBy("dca") \cup SentBy("flip") \cup SentBy("sl") = {}

\* C10: the take-profit limit price submitted after tick rounding yields at
\* least the configured profit: for a long it is >= avg x (1 + tpPct/100), for
\* a short <= avg x (1 - tpPct/100), and with a profit floor configured,
\* closing the full quantity at it nets at least the floor after the accrued
\* entry fees and the exit fee.
C10_TpYieldsConfiguredProfit ==
    (tp_order # None /\ avg_entry # None /\ pos_qty # 0) =>
        LET n == avg_entry[1]
            d == avg_entry[2]
            qty == Abs(pos_qty)
            tp == tp_order.price
        IN  IF pos_qty > 0
            THEN /\ tp * 100 * d >= n * (100 + TP_PCT)
                 /\ env.MIN_PROFIT_USD > 0 =>
                      d * (qty * tp * (TAKER_FEE_DEN - TAKER_FEE_NUM) - entry_fees_paid)
                        - qty * n * TAKER_FEE_DEN
                      >= env.MIN_PROFIT_USD * TAKER_FEE_DEN * d
            ELSE /\ tp * 100 * d <= n * (100 - TP_PCT)
                 /\ env.MIN_PROFIT_USD > 0 =>
                      qty * n * TAKER_FEE_DEN
                        - d * (qty * tp * (TAKER_FEE_DEN + TAKER_FEE_NUM) + entry_fees_paid)
                      >= env.MIN_PROFIT_USD * TAKER_FEE_DEN * d

(* ------------------------------ with_retry ----------------------------- *)
\* The bot stands still, just constructed, while one function is studied.
Parked ==
    /\ BotInit
    /\ env.RESEED_IMMEDIATELY
    /\ min_qty = 1

\* kwargs.pop("_tries", 5)
DEFAULT_TRIES == 5
\* largest _tries a caller passes
MaxTries == 5
\* 1.2 seconds, in tenths of a second
BACKOFF_BASE == 12

\* a backoff that grows linearly
with_retry_wait_linear(i) == BACKOFF_BASE * (i + 1)

\* wait = 1.2 * (2 ** i)
with_retry_wait(i) == BACKOFF_BASE * Pow(2, i)

\* what fn does on its 1st, 2nd, ... call: TRUE returns a value, FALSE raises
FnBehaviours(tries) == [1..(tries + 1) -> BOOLEAN]

\* with_retry entered: i is the loop variable, calls counts the calls of fn,
\* waits the sleeps in order, result the call whose value was returned (0: none)
InitRetry ==
    /\ Parked
    /\ \E tries \in 0..MaxTries : \E fn \in FnBehaviours(tries) :
          retry = [st |-> "loop", tries |-> tries, fn |-> fn, i |-> 0,
                   calls |-> 0, waits |-> <<>>, result |-> 0]
    /\ sizing = NotCalled
    /\ ind = NotCalled

\* lines 93-99: one pass of the for loop
WithRetryGuardedAttempt ==
    /\ retry.st = "loop"
    /\ retry.i < retry.tries
    /\ LET call == retry.calls + 1
       IN  IF retry.fn[call]
           THEN retry' = [retry EXCEPT !.calls = call, !.st = "returned",
                                       !.result = call]
           ELSE retry' = [retry EXCEPT !.calls = call,
                                       !.waits = Append(@, with_retry_wait(retry.i)),
                                       !.i = @ + 1]
    /\ UNCHANGED <<bot_vars, sizing, ind>>

\* line 100: the loop is used up; the last call is outside any try
WithRetryFinalAttempt ==
    /\ retry.st = "loop"
    /\ retry.i >= retry.tries
    /\ LET call == retry.calls + 1
       IN  retry' = [retry EXCEPT !.calls = call,
                                  !.st = IF retry.fn[call] THEN "returned" ELSE "raised",
                                  !.result = IF retry.fn[call] THEN call ELSE 0]
    /\ UNCHANGED <<bot_vars, sizing, ind>>

NextRetry ==
    \/ WithRetryGuardedAttempt
    \/ WithRetryFinalAttempt

SpecRetry == InitRetry /\ [][NextRetry]_vars

\* the calls of fn made so far that raised
FailedCalls ==
    {c \in 1..retry.calls : ~retry.fn[c]}

\* C11: with_retry calls fn at most tries+1 times; it returns the value of the
\* first call that succeeds and calls no more; after the i-th failed guarded
\* call (i from 0) it waits base * 2^i; it raises only when all tries+1 calls
\* have failed, and the final call is followed by no wait.
C11_BoundedRetryWithBackoff ==
    /\ retry.calls <= retry.tries + 1
    /\ retry.st = "returned"
          => /\ retry.result = retry.calls
             /\ retry.fn[retry.result]
             /\ \A c \in 1..(retry.result - 1) : ~retry.fn[c]
    /\ retry.st = "raised"
          => /\ retry.calls = retry.tries + 1
             /\ \A c \in 1..(retry.tries + 1) : ~retry.fn[c]
    /\ retry.st = "loop" => FailedCalls = 1..retry.calls
    /\ Len(retry.waits) = Cardinality(FailedCalls \cap 1..retry.tries)
    /\ \A j \in 1..Len(retry.waits) : retry.waits[j] = BACKOFF_BASE * (2 ^ (j - 1))

\* C11 witness: the default five guarded calls all failed, each followed by
\* its wait, and the sixth, unguarded call returned
C11_Witness ==
    /\ retry.tries = DEFAULT_TRIES
    /\ retry.st = "returned"
    /\ retry.result = DEFAULT_TRIES + 1
    /\ Len(retry.waits) = DEFAULT_TRIES

(* ------------------------- sizing, any configuration ------------------- *)
\* EQUITY_USDT, LEVERAGE_X and the volume scales an environment may set
Equities == {13, 91}
Leverages == {3}
Scales == {<<1, 2>>, <<1, 1>>, <<3, 2>>, <<2, 1>>}
\* largest MAX_DCA an environment sets
MaxDcaLevels == 3

\* the module constants read, __init__ about to size
InitSizing ==
    /\ Parked
    /\ \E equity \in Equities, cross \in BOOLEAN, leverage \in Leverages,
          max_dca \in 0..MaxDcaLevels, scale_long \in Scales, scale_short \in Scales :
          sizing = [st |-> "new", equity |-> equity, cross |-> cross,
                    leverage |-> leverage, max_dca |-> max_dca,
                    scale_long |-> scale_long, scale_short |-> scale_short,
                    budget |-> 0, long_base |-> <<0, 1>>, short_base |-> <<0, 1>>,
                    side |-> "none", level |-> -1,
                    leg_usdt |-> <<0, 1>>, used_usdt |-> <<0, 1>>]
    /\ retry = NotCalled
    /\ ind = NotCalled

\* lines 193-194: the budget and both bases, or the exception of _calc_bases
CalcBases ==
    /\ sizing.st = "new"
    /\ LET total == budget_of(sizing.equity, sizing.cross, sizing.leverage)
       IN  IF \/ base_raises(sizing.scale_long, sizing.max_dca)
              \/ base_raises(sizing.scale_short, sizing.max_dca)
           THEN sizing' = [sizing EXCEPT !.st = "raised", !.budget = total]
           ELSE sizing' =
                  [sizing EXCEPT
                     !.st = "sized", !.budget = total,
                     !.long_base = base_of(total, sizing.scale_long, sizing.max_dca),
                     !.short_base = base_of(total, sizing.scale_short, sizing.max_dca)]
    /\ UNCHANGED <<bot_vars, retry, ind>>

\* what _seed_if_flat books for the side it opens
SizeSeed ==
    /\ sizing.st = "sized"
    /\ \E side \in {"long", "short"} :
          LET usdt == IF side = "long" THEN sizing.long_base ELSE sizing.short_base
          IN  sizing' = [sizing EXCEPT !.st = "open", !.side = side, !.level = 0,
                                       !.leg_usdt = usdt, !.used_usdt = usdt]
    /\ UNCHANGED <<bot_vars, retry, ind>>

\* what _maybe_dca books once the price has moved far enough: the next leg,
\* if the budget test lets it through (no sum of legs of these
\* configurations lies within the 1e-6 of the test above the budget)
SizeAdd ==
    /\ sizing.st = "open"
    /\ sizing.level < sizing.max_dca
    /\ LET scale == IF sizing.side = "long" THEN sizing.scale_long
                                             ELSE sizing.scale_short
           next_leg == FMul(sizing.leg_usdt, scale)
       IN  IF FLe(FAdd(sizing.used_usdt, next_leg), <<sizing.budget, 1>>)
           THEN sizing' = [sizing EXCEPT !.level = @ + 1, !.leg_usdt = next_leg,
                                         !.used_usdt = FAdd(@, next_leg)]
           ELSE sizing' = [sizing EXCEPT !.st = "blocked"]
    /\ UNCHANGED <<bot_vars, retry, ind>>

NextSizing ==
    \/ CalcBases
    \/ SizeSeed
    \/ SizeAdd

SpecSizing == InitSizing /\ [][NextSizing]_vars

\* scale^0 + ... + scale^n, term by term
RECURSIVE SumPow(_, _)
SumPow(scale, n) ==
    IF n < 0 THEN <<0, 1>> ELSE FAdd(SumPow(scale, n - 1), FPow(scale, n))

\* C12: once the bases are computed, base * (scale^0 + ... + scale^maxDca) is
\* the total budget on each side, the budget being equity * leverage under
\* cross margin and equity otherwise; no Add of a position on its way to
\* maxDca Adds is refused by the budget test, and with all maxDca Adds taken
\* the used notional is the total budget.
C12_LegsSumToBudget ==
    /\ sizing.st \in {"sized", "open", "blocked"}
          => /\ sizing.budget = sizing.equity
                                 * (IF sizing.cross THEN sizing.leverage ELSE 1)
             /\ FMul(sizing.long_base, SumPow(sizing.scale_long, sizing.max_dca))
                  = <<sizing.budget, 1>>
             /\ FMul(sizing.short_base, SumPow(sizing.scale_short, sizing.max_dca))
                  = <<sizing.budget, 1>>
    /\ sizing.st # "blocked"
    /\ (sizing.st = "open" /\ sizing.level = sizing.max_dca)
          => sizing.used_usdt = <<sizing.budget, 1>>

\* C12 witness: a short position under cross margin with scale 3/2 has taken
\* its seed and two Adds or more, the last one allowed, and used the budget up
C12_Witness ==
    /\ sizing.st = "open"
    /\ sizing.side = "short"
    /\ sizing.cross
    /\ sizing.scale_short = <<3, 2>>
    /\ sizing.max_dca >= 2
    /\ sizing.level = sizing.max_dca
    /\ sizing.used_usdt = <<sizing.budget, 1>>

\* C13: with a side's scale equal to 1 the sizing completes and that side's
\* base is totalBudget / (maxDca + 1).
C13_UnitScaleSizes ==
    /\ (sizing.st \notin {"idle", "new"} /\ sizing.scale_long = <<1, 1>>)
          => /\ sizing.st # "raised"
             /\ sizing.long_base = Frac(sizing.budget, sizing.max_dca + 1)
    /\ (sizing.st \notin {"idle", "new"} /\ sizing.scale_short = <<1, 1>>)
          => /\ sizing.st # "raised"
             /\ sizing.short_base = Frac(sizing.budget, sizing.max_dca + 1)

(* ----------------------- bulls_signal_from_klines ---------------------- *)
\* line 114 sets length = 50 and bars = 30, and line 120 asks for
\* max(length, 35) candles, 35 being bars + 5.  The model keeps the algorithm
\* and the 4-bar lookback and shortens the window and the count, so that
\* series of a few candles go through every branch.
length == 3
bars == 1

\* a warm-up that asks for the window only
min_candles_window == length

\* max(length, 35)
min_candles == IF length >= bars + 5 THEN length ELSE bars + 5

\* candles of a series: rising and falling bars at two price levels, by
\* open, high, low, close
Candles ==
    { [o |-> 1, h |-> 2, l |-> 1, c |-> 2], [o |-> 2, h |-> 2, l |-> 1, c |-> 1],
      [o |-> 2, h |-> 3, l |-> 2, c |-> 3], [o |-> 3, h |-> 3, l |-> 2, c |-> 2] }
\* candles in the longest series fetched
MaxCandles == 7

\* lines 124-125, bar i counted from 1
highest(k, i) ==
    LET window == {k[j].h : j \in (IF i > length THEN i - length + 1 ELSE 1)..i}
    IN  CHOOSE x \in window : \A y \in window : y <= x

lowest(k, i) ==
    LET window == {k[j].l : j \in (IF i > length THEN i - length + 1 ELSE 1)..i}
    IN  CHOOSE x \in window : \A y \in window : x <= y

\* lines 129-133: <<bindex[i], sindex[i]>> before the resets, from the pair
\* of the bar before
counted(k, i, prev) ==
    << prev[1] + (IF i >= 5 /\ k[i].c > k[i - 4].c THEN 1 ELSE 0),
       prev[2] + (IF i >= 5 /\ k[i].c < k[i - 4].c THEN 1 ELSE 0) >>

\* lines 135-136
condShort(k, i, cnt) ==
    cnt[1] > bars /\ k[i].c < k[i].o /\ k[i].h >= highest(k, i)

condLong(k, i, cnt) ==
    cnt[2] > bars /\ k[i].c > k[i].o /\ k[i].l <= lowest(k, i)

\* lines 127-139: <<bindex[i], sindex[i]>> as the loop leaves them
RECURSIVE indexes(_, _)
indexes(k, i) ==
    IF i = 0 THEN <<0, 0>>
    ELSE LET cnt == counted(k, i, indexes(k, i - 1))
         IN  << IF condShort(k, i, cnt) THEN 0 ELSE cnt[1],
                IF condLong(k, i, cnt) THEN 0 ELSE cnt[2] >>

\* lines 141-142
Lelex(k, i) ==
    LET idx == indexes(k, i)
    IN  IF idx[2] = 0 /\ k[i].c > k[i].o /\ k[i].l <= lowest(k, i) THEN 1
        ELSE IF idx[1] = 0 /\ k[i].c < k[i].o /\ k[i].h >= highest(k, i) THEN -1
        ELSE 0

\* Lelex[-1] and Lelex[-2] of a list too short for them: IndexError
bulls_signal_raises(k) == Len(k) >= min_candles /\ Len(k) < 2

\* lines 119-121 and 144-148
bulls_signal_from_klines(k) ==
    LET n == Len(k)
    IN  IF n < min_candles THEN <<FALSE, FALSE, FALSE, FALSE>>
        ELSE LET sigL == Lelex(k, n) = 1
                 sigS == Lelex(k, n) = -1
             IN  << sigL, sigS, sigL /\ Lelex(k, n - 1) # 1,
                    sigS /\ Lelex(k, n - 1) # -1 >>

\* the function called on a series of candles
InitSignal ==
    /\ Parked
    /\ \E n \in 0..MaxCandles : \E k \in [1..n -> Candles] :
          ind = [st |-> "called", klines |-> k, out |-> NoSignal]
    /\ retry = NotCalled
    /\ sizing = NotCalled

BullsSignalFromKlines ==
    /\ ind.st = "called"
    /\ ind' = IF bulls_signal_raises(ind.klines)
              THEN [ind EXCEPT !.st = "raised"]
              ELSE [ind EXCEPT !.st = "returned",
                               !.out = bulls_signal_from_klines(ind.klines)]
    /\ UNCHANGED <<bot_vars, retry, sizing>>

NextSignal == BullsSignalFromKlines

SpecSignal == InitSignal /\ [][NextSignal]_vars

\* the call is over on a series long enough to be evaluated
Evaluated == ind.st = "returned" /\ Len(ind.klines) >= min_candles

\* the mark of the latest bar that carries one, 0 when no bar does
LastMark(k) ==
    LET marked == {i \in 1..Len(k) : Lelex(k, i) # 0}
    IN  IF marked = {} THEN 0
        ELSE Lelex(k, CHOOSE i \in marked : \A j \in marked : j <= i)

\* C14: on a series of at least the minimum length longSignal (shortSignal) is
\* true exactly when the latest bar carrying a mark is marked Long (Short),
\* whether or not that bar is the last one; freshLong (freshShort) is true
\* only when the signal is true and the bar before the last carries another
\* mark.
C14_SignalFollowsLastMark ==
    Evaluated =>
        LET k == ind.klines
            n == Len(k)
        IN  /\ ind.out[1] = (LastMark(k) = 1)
            /\ ind.out[2] = (LastMark(k) = -1)
            /\ ind.out[3] => (ind.out[1] /\ Lelex(k, n - 1) # 1)
            /\ ind.out[4] => (ind.out[2] /\ Lelex(k, n - 1) # -1)

\* C15: for every series shorter than max(window, confirmBars + 5), the empty
\* one included, the function returns (false, false, false, false) and does
\* not raise.
C15_ShortSeriesNoSignal ==
    (/\ ind.st \notin {"idle", "called"}
     /\ (Len(ind.klines) < length \/ Len(ind.klines) < bars + 5))
        => (ind.st = "returned" /\ ind.out = <<FALSE, FALSE, FALSE, FALSE>>)

\* C15 witness: a series one candle short of the minimum, whose last bar
\* would carry a Long mark, has been answered with no signal
C15_Witness ==
    /\ ind.st = "returned"
    /\ Len(ind.klines) = bars + 4
    /\ Len(ind.klines) >= length
    /\ Lelex(ind.klines, Len(ind.klines)) = 1
    /\ ind.out = <<FALSE, FALSE, FALSE, FALSE>>

\* the long (short) reversal fires on bar i
FiresLong(k, i) == condLong(k, i, counted(k, i, indexes(k, i - 1)))
FiresShort(k, i) == condShort(k, i, counted(k, i, indexes(k, i - 1)))

\* C19: a bar is marked Long only if the long reversal fired on it (bearCount
\* above confirmBars, close > open, low <= rolling lowest), so longSignal and
\* freshLong are reported only on such a bar; a bar is marked Short only if
\* the short reversal fired on it; no bar fires or is marked both ways.
C19_MarkedOnlyWhereFired ==
    Evaluated =>
        LET k == ind.klines
            n == Len(k)
        IN  /\ \A i \in 1..n :
                  /\ Lelex(k, i) = 1 => FiresLong(k, i)
                  /\ Lelex(k, i) = -1 => FiresShort(k, i)
                  /\ ~(FiresLong(k, i) /\ FiresShort(k, i))
            /\ ind.out[1] => FiresLong(k, n)
            /\ ind.out[2] => FiresShort(k, n)

(* --------------------- the claims about failed fetches ----------------- *)
\* what the bot holds and what rests at the venue
holdings == <<pos_qty, avg_entry, used_usdt, leg_usdt, level, last_fill_px,
              entry_fees_paid, tp_order_id, tp_order, venue_tps>>

\* C16: when the ticker fetch fails the tick is skipped: the step that logs
\* the failure and the step after it change neither the position nor the
\* pending take-profit nor the venue's book, send and cancel nothing, pass
\* through none of Reconciliation, Seed, Add, Flip and EmergencyStop, and
\* lead back to the next fetch.
C16_TickerFailureSkipsTick ==
    [][ /\ (pc = "fetch" /\ log' = <<PriceFailed>>)
             => (pc' = "skip" /\ UNCHANGED <<holdings, last_dir, sig>>)
        /\ pc' = "skip" => log' = <<PriceFailed>>
        /\ pc = "skip"
             => (pc' = "fetch" /\ log' = <<>> /\ UNCHANGED <<holdings, last_dir, sig>>)
      ]_vars

\* C16 witness: the ticker fetch has failed with a position open and its
\* take-profit resting at the venue
C16_Witness ==
    /\ pc = "skip"
    /\ log = <<PriceFailed>>
    /\ pos_qty # 0
    /\ tp_order_id # NoId
    /\ tp_order_id \in venue_tps

\* the signal fetch of the running tick has failed
SignalFailed == Events("signal_failed") # {}

\* _maybe_dca would add at the tick's price
AddDue ==
    /\ pos_qty # 0
    /\ level >= 0
    /\ level < MAX_DCA
    /\ AdverseMove
    /\ used_usdt + NextLeg <= budget
    /\ round_qty(NextLeg, price) > 0

\* the tick's price is at or beyond the stop of the open position
StopDue ==
    /\ env.USE_EMERGENCY_SL
    /\ pos_qty # 0
    /\ avg_entry # None
    /\ \/ pos_qty > 0 /\ price * 100 * avg_entry[2] <= avg_entry[1] * (100 - EMERGENCY_SL_PCT)
       \/ pos_qty < 0 /\ price * 100 * avg_entry[2] >= avg_entry[1] * (100 + EMERGENCY_SL_PCT)

\* C17: when the signal fetch fails the four flags are false for the rest of
\* the tick and lastDirectionSeen keeps its value; Seed-if-flat and Flip
\* change nothing and send nothing; Add and EmergencyStop are still decided
\* against the tick's price: an Add or a stop that is due sends its order.
C17_SignalFailureDegrades ==
    [][ /\ (pc = "signals" /\ SignalFailed')
             => /\ sig' = <<FALSE, FALSE, FALSE, FALSE>>
                /\ pc' = "seed"
                /\ UNCHANGED <<holdings, last_dir>>
        /\ (SignalFailed /\ pc = "seed")
             => (pc' = "dca" /\ log' = log /\ UNCHANGED <<holdings, last_dir, sig>>)
        /\ (SignalFailed /\ pc = "flip")
             => (pc' = "sl" /\ log' = log /\ UNCHANGED <<holdings, last_dir, sig>>)
        /\ (SignalFailed /\ pc = "dca")
             => /\ UNCHANGED <<last_dir, sig>>
                /\ AddDue => SentBy("dca")' # {}
                /\ ~AddDue => (log' = log /\ UNCHANGED holdings)
        /\ (SignalFailed /\ pc = "sl")
             => /\ UNCHANGED <<last_dir, sig>>
                /\ StopDue => SentBy("sl")' # {}
                /\ ~StopDue => (log' = log /\ UNCHANGED holdings)
      ]_vars

\* C17 witness: in a tick whose signal fetch failed, the Add went through
C17_Witness ==
    /\ SignalFailed
    /\ EventsBy("add", "dca") # {}
    /\ pc \in {"flip", "sl", "sleep"}

(* ------------------------- rejected market orders ---------------------- *)
\* the running tick's step has had a market order rejected
Rejected(step) == EventsBy("mkt_rejected", step) # {}

\* C18: when the market order of Seed, Add, EmergencyStop or the close leg of
\* Flip is rejected, quantity, averagePrice, dcaLevel, usedNotional,
\* legNotional, lastFillPrice and accruedEntryFees are what they were when the
\* operation started; for the Seed that Reconciliation makes after its Reset
\* that is the reset position.
C18_RejectedOrderLeavesPosition ==
    [][ /\ (pc = "seed" /\ Rejected("seed")') => UNCHANGED position
        /\ (pc = "dca" /\ Rejected("dca")') => UNCHANGED position
        /\ (pc = "sl" /\ Rejected("sl")') => UNCHANGED position
        /\ (pc = "flip" /\ Rejected("flip")' /\ EventsBy("mkt_close", "flip")' = {})
             => UNCHANGED position
        /\ (pc = "sync" /\ Rejected("sync")')
             => position' = <<0, None, 0, 0, -1, NoPx, 0>>
      ]_vars

\* C18 witness: the market order of an Add has been rejected with a position
\* open that had paid entry fees
C18_Witness ==
    /\ Rejected("dca")
    /\ pos_qty # 0
    /\ level >= 0
    /\ entry_fees_paid > 0

(* ----------------------------- EmergencyStop --------------------------- *)
\* the market orders the emergency-stop step of the running tick has sent
StopOrders(l) ==
    { i \in 1..Len(l) : l[i].by = "sl" /\ l[i].ev \in {"mkt_open", "mkt_close"} }

\* the flags of the tick let _seed_if_flat open a position
SeedSignal ==
    IF env.SEED_FRESH_ONLY THEN sig[3] \/ sig[4] ELSE sig[1] \/ sig[2]

\* the stop step acts only when it is due, closes with one reduce-only order
\* for the full quantity, resets and opens nothing
StopActsOnlyWhenDue ==
    pc = "sl" =>
        /\ (~StopDue) => (log' = log /\ UNCHANGED <<holdings, last_dir>>)
        /\ (StopDue /\ pc' # "crashed")
             => /\ Cardinality(StopOrders(log')) = 1
                /\ \A i \in StopOrders(log') :
                      /\ log'[i].ev = "mkt_close"
                      /\ log'[i].qty = Abs(pos_qty)
                /\ position' = <<0, None, 0, 0, -1, NoPx, 0>>
                /\ tp_order_id' = NoId
        /\ (StopDue /\ pc' = "crashed") => UNCHANGED position

\* the one order of the stop closes: it sells a long and buys back a short
StopOrderCloses ==
    (pc = "sl" /\ StopDue) =>
        \A i \in StopOrders(log') :
            log'[i].side = IF pos_qty > 0 THEN "Sell" ELSE "Buy"

\* a flat bot gets a position only from _seed_if_flat on a qualifying signal
FlatUntilSignalSeed ==
    (pos_qty = 0 /\ pos_qty' # 0) => (pc = "seed" /\ SeedSignal)

\* C20: EmergencyStop changes state only when it is enabled, the position is
\* open and the price has crossed the stop (long: price <= avg * (1 - sl/100);
\* short: price >= avg * (1 + sl/100)); it then sends one reduce-only market
\* order that closes the full quantity, resets to Flat and opens nothing in
\* that tick; a Flat bot is opened again only by a Seed on a qualifying
\* signal, never by the reseed of Reconciliation.
C20_EmergencyStop ==
    [][StopActsOnlyWhenDue /\ StopOrderCloses /\ FlatUntilSignalSeed]_vars

(* --------------------------------- Reset ------------------------------- *)
\* C21: Reset, applied to any reachable state, leaves quantity 0,
\* averagePrice null, dcaLevel -1, usedNotional 0, legNotional 0,
\* lastFillPrice null and accruedEntryFees 0 and no take-profit id held,
\* whether the cancel succeeds or fails, and leaves lastDirectionSeen as it
\* was (the budget and the bases are fixed at construction); after the
\* reset of an EmergencyStop, or of a Reconciliation that does not reseed, the
\* bot is in that state; in every Flat state no take-profit id is held.
C21_ResetClearsPosition ==
    /\ \A cancel_ok \in BOOLEAN :
          LET w == reset_state(World("reset"), cancel_ok)
          IN  /\ w.pos_qty = 0
              /\ w.avg_entry = None
              /\ w.level = -1
              /\ w.used_usdt = 0
              /\ w.leg_usdt = 0
              /\ w.last_fill_px = NoPx
              /\ w.entry_fees_paid = 0
              /\ w.tp_order_id = NoId
              /\ w.last_dir = last_dir
              /\ ~w.exc
    /\ (\/ pc = "sleep" /\ EventsBy("reset", "sl") # {}
        \/ pc = "signals" /\ EventsBy("reset", "sync") # {}
             /\ ~env.RESEED_IMMEDIATELY)
          => (position = <<0, None, 0, 0, -1, NoPx, 0>> /\ tp_order_id = NoId)
    /\ pos_qty = 0 => tp_order_id = NoId

\* C21 witness: the reset of a Reconciliation, its cancel having failed, has
\* left the bot Flat with no id held and the direction seen kept
C21_Witness ==
    /\ pc = "signals"
    /\ EventsBy("reset", "sync") # {}
    /\ EventsBy("tp_cancel_failed", "sync") # {}
    /\ ~env.RESEED_IMMEDIATELY
    /\ pos_qty = 0
    /\ tp_order_id = NoId
    /\ last_dir # 0

(* ------------------------ one operation per tick ----------------------- *)
\* what the running tick has done
AddActed == SentBy("dca") # {}
FlipActed == SentBy("flip") # {}
SeedOpened == EventsBy("mkt_open", "seed") # {}

\* C22: with the positive DCA steps of the configuration every open long has
\* lastFillPrice <= averagePrice and every open short has lastFillPrice >=
\* averagePrice; with the non-negative flip buffer no tick performs both an
\* Add and a Flip, and a tick in which Seed-if-flat opens a position performs
\* neither an Add nor a Flip.
C22_LastFillBehindAverage ==
    /\ FIT_LONG_STEP > 0 /\ FIT_SHORT_STEP > 0 /\ FLIP_BUFFER_PCT >= 0
    /\ pos_qty # 0 => (avg_entry # None /\ last_fill_px # NoPx)
    /\ pos_qty > 0 => last_fill_px * avg_entry[2] <= avg_entry[1]
    /\ pos_qty < 0 => last_fill_px * avg_entry[2] >= avg_entry[1]
    /\ ~(AddActed /\ FlipActed)
    /\ SeedOpened => (~AddActed /\ ~FlipActed)

\* C22 witness: a tick with a fresh short signal has added to a long below its
\* average, and the flip step has passed without a flip
C22_Witness ==
    /\ pc \in {"sl", "sleep"}
    /\ EventsBy("add", "dca") # {}
    /\ pos_qty > 0
    /\ sig[4]
    /\ last_fill_px * avg_entry[2] < avg_entry[1]
    /\ ~FlipActed

====
